---------------------------- MODULE Spec2Model ----------------------------
(***************************************************************************)
(* A model of GitHubClient (src/files/github_client.py): request dispatch  *)
(* with its two retry layers (the loop of _make_request and the urllib3    *)
(* Retry mounted on the session by _setup_session), the three cache layers *)
(* (self.cache and the two closures of cache_result), the create/update    *)
(* protocol of upload_file, and the read operations.                       *)
(*                                                                         *)
(* One client runs one API call at a time; pc is the position of that call.*)
(* Every physical HTTP attempt is one step (Wire) whose outcome is chosen  *)
(* by the environment: the remote serves the request from its own state,   *)
(* or answers with a fault status, or the transport fails.                 *)
(***************************************************************************)
EXTENDS Integers, Sequences, FiniteSets, TLC

VARIABLES
    now,              \* datetime.now(), in seconds
    cache,            \* self.cache: key -> (value, timestamp)
    repos_memo,       \* the dict `cache` closed over by @cache_result(300) on get_user_repos
    list_memo,        \* the dict `cache` closed over by @cache_result(180) on list_files
    request_count,    \* self.request_count
    cached_requests,  \* self.cached_requests
    files,            \* remote: path -> revision of the file (0: no such file)
    repos,            \* remote: names of the account's repositories
    pc,               \* position of the call in progress
    op,               \* the API call in progress and its locals
    batch,            \* locals of batch_upload_files
    req,              \* arguments of the _make_request / session.get in progress
    attempt,          \* loop variable `attempt`
    retries,          \* urllib3: Retry.total left inside the current session.request
    resp,             \* what the dispatch returned to its caller
    result,           \* what the API call returns
    journal,          \* history: the dispatches of the current call, with their answers
    wired,            \* history: the current call made a physical attempt
    glog,             \* history: physical attempts and sleeps of the current dispatch
    last,             \* history: the previous completed API call
    ops,              \* API calls the behaviour may still start
    loaded,           \* per thread: the counter value read by an unfinished += 1
    reader            \* per thread: where its lookup in self.cache stands, and what it read

vars == <<now, cache, repos_memo, list_memo, request_count, cached_requests,
          files, repos, pc, op, batch, req, attempt, retries, resp, result,
          journal, wired, glog, last, ops, loaded, reader>>

---------------------------------------------------------------------------
(* Bounds of the model *)

\* highest revision a remote file reaches
MaxVer == 2
\* files handed to batch_upload_files per behaviour
MaxBatch == 3
\* API calls per behaviour
MaxOps == 2
\* API calls per behaviour of the read-mutate-read specification
MaxStaleOps == 3
\* dispatches the threads may start per behaviour of the concurrent specification
MaxThreadOps == 3
\* upload_file calls per behaviour of the termination specification
MaxUploads == 1

---------------------------------------------------------------------------
(* Program constants *)

max_retries == 3
retry_total == 3
status_forcelist == {429, 500, 502, 503, 504}
RETRY_AFTER_STATUS_CODES == {413, 429, 503}
cache_expiry == 300
repos_expiry == 300
list_expiry == 180

\* arguments the calls are made with
Repo == "r"
RepoNames == {"r", "n"}
Paths == {"a", "b"}
Root == ""

\* clock readings: the instants around the expiry of an entry stored at 0
Instants == {0, list_expiry - 1, list_expiry, cache_expiry - 1, cache_expiry}

---------------------------------------------------------------------------
(* Values *)

None == [kind |-> "none"]
NoBody == [kind |-> "error"]
Response(status, retry_after, body) ==
    [kind |-> "response", status |-> status, retry_after |-> retry_after, body |-> body]

IsNone(v) == v.kind = "none"

\* URLs built by the f-strings of the client
ContentsUrl(path) == <<"contents", path>>
ListingUrl(path, branch) == <<"contents?ref", path, branch>>
RepoUrl(name) == <<"repos", name>>
UserReposUrl == <<"user/repos?per_page=100">>
CreateRepoUrl == <<"user/repos">>
RawUrl(path) == <<"raw", path>>

\* a request: sha and name are the fields of its json body (0, "": not sent);
\* raw marks the session.get of _download_from_raw_url
Request(method, url, use_cache, sha, name, raw) ==
    [method |-> method, url |-> url, use_cache |-> use_cache, sha |-> sha,
     name |-> name, raw |-> raw]
NoRequest == Request("", <<"">>, FALSE, 0, "", FALSE)


---------------------------------------------------------------------------
(* The remote API, as far as the client's requests observe it *)

\* paths whose metadata carries a download_url; the others are served inline
Linked == {"a"}

FileInfo(path, rev) ==
    [kind |-> "file_info", path |-> path, type |-> "file", sha |-> rev,
     download_url |-> (path \in Linked), content |-> rev]
\* a path whose metadata is not of type 'file' (a symlink), with a download_url
NonFile == "d"
NonFileInfo(path) ==
    [kind |-> "file_info", path |-> path, type |-> "symlink", sha |-> 1,
     download_url |-> TRUE, content |-> 1]
\* a file whose metadata has neither a download_url nor a content
Hollow == "e"
HollowInfo(path) ==
    [kind |-> "file_info", path |-> path, type |-> "file", sha |-> 1,
     download_url |-> FALSE, content |-> 0]
Commit(path, rev) == [kind |-> "commit", path |-> path, sha |-> rev]
Listing(fs) == [kind |-> "listing", items |-> {<<p, fs[p]>> : p \in {q \in Paths : fs[q] > 0}}]
RepoInfo(name) == [kind |-> "repo", name |-> name, default_branch |-> "main"]
RepoList(rs) == [kind |-> "repos", names |-> rs]
RawContent(rev) == [kind |-> "raw", content |-> rev]

Served(status, body, fs, rs) == [status |-> status, body |-> body, files |-> fs, repos |-> rs]

\* What the remote answers to request r in state (fs, rs), and the state it moves to.
Serve(r, fs, rs) ==
    LET kind == r.url[1]
        arg == IF Len(r.url) > 1 THEN r.url[2] ELSE ""
    IN  CASE r.method = "GET" /\ kind = "contents" ->
                IF arg = NonFile THEN Served(200, NonFileInfo(arg), fs, rs)
                ELSE IF arg = Hollow THEN Served(200, HollowInfo(arg), fs, rs)
                ELSE IF fs[arg] > 0 THEN Served(200, FileInfo(arg, fs[arg]), fs, rs)
                ELSE Served(404, NoBody, fs, rs)
          [] r.method = "GET" /\ kind = "contents?ref" -> Served(200, Listing(fs), fs, rs)
          [] r.method = "GET" /\ kind = "raw" ->
                IF arg = NonFile THEN Served(200, RawContent(1), fs, rs)
                ELSE IF arg \in Paths /\ fs[arg] > 0 THEN Served(200, RawContent(fs[arg]), fs, rs)
                ELSE Served(404, NoBody, fs, rs)
          [] r.method = "GET" /\ kind = "repos" ->
                IF arg \in rs THEN Served(200, RepoInfo(arg), fs, rs)
                ELSE Served(404, NoBody, fs, rs)
          [] r.method = "GET" /\ kind = "user/repos?per_page=100" ->
                Served(200, RepoList(rs), fs, rs)
          [] r.method = "POST" /\ kind = "user/repos" ->
                IF r.name \in rs THEN Served(422, NoBody, fs, rs)
                ELSE Served(201, RepoInfo(r.name), fs, rs \cup {r.name})
          [] r.method = "PUT" /\ kind = "contents" ->
                IF fs[arg] = 0
                THEN IF r.sha = 0
                     THEN Served(201, Commit(arg, 1), [fs EXCEPT ![arg] = 1], rs)
                     ELSE Served(404, NoBody, fs, rs)
                ELSE IF r.sha = 0 THEN Served(422, NoBody, fs, rs)
                ELSE IF r.sha = fs[arg]
                     THEN Served(200, Commit(arg, fs[arg] + 1),
                                 [fs EXCEPT ![arg] = fs[arg] + 1], rs)
                     ELSE Served(409, NoBody, fs, rs)
          [] r.method = "DELETE" /\ kind = "contents" ->
                IF fs[arg] = 0 THEN Served(404, NoBody, fs, rs)
                ELSE IF r.sha = fs[arg] THEN Served(200, Commit(arg, 0), [fs EXCEPT ![arg] = 0], rs)
                ELSE Served(409, NoBody, fs, rs)
          [] OTHER -> Served(404, NoBody, fs, rs)

\* the remote's revisions stay within the model's bound
WithinBound(r) == Serve(r, files, repos).files \in [Paths -> 0..MaxVer]

\* What one physical attempt can end in.
FaultStatuses == {401, 403, 413, 429, 500, 503}
Outcomes ==
    {[kind |-> "served", status |-> 0, retry_after |-> FALSE]}
    \cup [kind : {"fault"}, status : FaultStatuses \ {413}, retry_after : {FALSE}]
    \cup [kind : {"fault"}, status : {413}, retry_after : BOOLEAN]
    \cup [kind : {"timeout", "connection"}, status : {0}, retry_after : {FALSE}]


---------------------------------------------------------------------------
(* The cache layers *)

\* hashlib.md5((url + str(kwargs)).encode()).hexdigest(): a digest of the URL (kwargs
\* is empty at every cached GET); a hex digest never starts with 'repo_'
Md5Key(url) == <<"md5">> \o url
\* f"repo_{name}"
RepoKey(name) == <<"repo_", name>>
\* hashlib.md5(str(args).encode() + str(kwargs).encode()).hexdigest(): self is no part of it
MemoKey(args) == <<"md5">> \o args

Entry(value, timestamp) == [value |-> value, timestamp |-> timestamp]

\* datetime.now() - timestamp < timedelta(seconds=expiry)
Fresh(entry, t, expiry) == t - entry.timestamp < expiry

\* d[k] = e
Put(d, k, e) == [x \in DOMAIN d \cup {k} |-> IF x = k THEN e ELSE d[x]]
\* del d[k] for k in ks
Drop(d, ks) == [x \in DOMAIN d \ ks |-> d[x]]
EmptyDict == [x \in {} |-> None]

\* use_cache and method.upper() == 'GET'
Cacheable(r) == r.use_cache /\ r.method = "GET"

\* k.startswith('repo_')
StartsWithRepo(k) == k[1] = "repo_"

\* _clear_repo_cache
ClearRepoCache(d) == Drop(d, {k \in DOMAIN d : StartsWithRepo(k)})

---------------------------------------------------------------------------
(* The retry layers *)

\* urllib3 Retry.is_retry under Retry(total=3, status_forcelist=[...],
\* allowed_methods=[every method the client uses]), respect_retry_after_header left True
is_retry(method, status_code, has_retry_after, total) ==
    /\ method \in {"HEAD", "GET", "OPTIONS", "POST", "PUT", "DELETE"}
    /\ \/ status_code \in status_forcelist
       \/ total > 0 /\ has_retry_after /\ status_code \in RETRY_AFTER_STATUS_CODES

\* wait_time = (2 ** attempt) + 1
WaitTime(a) == 2^a + 1
\* wait_time = (2 ** attempt) + 2
RawWaitTime(a) == 2^a + 2

Verdict(again, wait, value) == [again |-> again, wait |-> wait, value |-> value]

\* The body of the loop of _make_request after session.request: `raised` is the
\* exception session.request ended in ("none": it returned r).
\* a loop that makes one pass more than max_retries after a transport failure
OnePassMore(raised, r, a) ==
    CASE raised = "none" -> Verdict(FALSE, 0, r)
      [] raised \in {"Timeout", "ConnectionError"} ->
            IF a < max_retries THEN Verdict(TRUE, WaitTime(a), None)
            ELSE Verdict(FALSE, 0, None)
      [] OTHER -> Verdict(FALSE, 0, None)
DispatchVerdict(raised, r, a) ==
    CASE raised = "none" ->
            IF r.status < 400 THEN Verdict(FALSE, 0, r)
            ELSE IF r.status = 401 THEN Verdict(FALSE, 0, r)
            ELSE IF r.status = 403 THEN Verdict(FALSE, 0, r)
            ELSE IF r.status \in {429, 500, 502, 503, 504}
                 THEN IF a < max_retries - 1 THEN Verdict(TRUE, WaitTime(a), None)
                      ELSE Verdict(FALSE, 0, r)
            ELSE Verdict(FALSE, 0, r)
      [] raised \in {"Timeout", "ConnectionError"} ->
            IF a < max_retries - 1 THEN Verdict(TRUE, WaitTime(a), None)
            ELSE Verdict(FALSE, 0, None)
      [] OTHER -> Verdict(FALSE, 0, None)

\* The body of the loop of _download_from_raw_url after session.get
RawVerdict(raised, r, a) ==
    CASE raised = "none" ->
            IF r.status = 200 THEN Verdict(FALSE, 0, r)
            ELSE IF r.status \in {429, 500, 502, 503, 504}
                 THEN IF a < max_retries - 1 THEN Verdict(TRUE, RawWaitTime(a), None)
                      ELSE Verdict(FALSE, 0, None)
            ELSE Verdict(FALSE, 0, None)
      [] raised = "Timeout" ->
            IF a < max_retries - 1 THEN Verdict(TRUE, RawWaitTime(a), None)
            ELSE Verdict(FALSE, 0, None)
      [] OTHER ->
            IF a < max_retries - 1 THEN Verdict(TRUE, WaitTime(a), None)
            ELSE Verdict(FALSE, 0, None)

\* What requests turns the end of urllib3's retries into: the last physical attempt
\* decides (a connect timeout, any other transport failure, a forced status)
Raised(o, exhausted) ==
    CASE o.kind = "timeout" -> "Timeout"
      [] o.kind = "connection" -> "ConnectionError"
      [] exhausted -> "RetryError"
      [] OTHER -> "none"

---------------------------------------------------------------------------
(* History of the current dispatch *)

\* wire: physical attempts; sleeps: the arguments of time.sleep; lead503: the 503
\* answers before any other outcome; allForced: every outcome was a status of the
\* forcelist; lastKind, lastStatus: the last outcome; counted: executions of
\* `self.request_count += 1`; hit: the dispatch was answered from self.cache
NoLog == [wire |-> 0, sleeps |-> <<>>, lead503 |-> 0, allForced |-> TRUE,
          lastKind |-> "none", lastStatus |-> 0, counted |-> 0, hit |-> FALSE]

Observe(g, o, r) ==
    LET st == IF IsNone(r) THEN 0 ELSE r.status
    IN  [g EXCEPT !.wire = @ + 1,
                  !.lead503 = IF g.lead503 = g.wire /\ st = 503 THEN @ + 1 ELSE @,
                  !.allForced = g.allForced /\ st \in status_forcelist,
                  !.lastKind = IF IsNone(r) THEN o.kind ELSE "response",
                  !.lastStatus = st]

Slept(g, wait) == [g EXCEPT !.sleeps = Append(@, wait)]

Counted(g) == [g EXCEPT !.counted = @ + 1]

\* a line of the journal: the request and the answer its caller got (status, the
\* sha of file metadata, and the body when it is file metadata or raw content)
Line(r, answer) ==
    [method |-> r.method, url |-> r.url, sha |-> r.sha,
     status |-> IF IsNone(answer) THEN 0 ELSE answer.status,
     got |-> IF ~IsNone(answer) /\ answer.body.kind = "file_info" THEN answer.body.sha ELSE 0,
     body |-> IF ~IsNone(answer) /\ answer.body.kind \in {"file_info", "raw"}
              THEN answer.body ELSE NoBody]


---------------------------------------------------------------------------
(* State after construction (__init__), with the remote in any small state *)

Op(name, arg, stage, sha) ==
    [name |-> name, arg |-> arg, stage |-> stage, sha |-> sha, start |-> now, failed |-> FALSE]
NoOp == [name |-> "none", arg |-> "", stage |-> "", sha |-> 0, start |-> 0, failed |-> FALSE]
NoBatch == [active |-> FALSE, files |-> <<>>, results |-> <<>>]
NoLast == [name |-> "none", arg |-> "", sha |-> 0, result |-> None, failed |-> FALSE,
           wired |-> FALSE, start |-> 0, end |-> 0]

\* the threads that share one client, and a thread outside every += 1
Threads == {1, 2}
NoLoad == [counter |-> "none", value |-> 0, path |-> ""]
\* a thread outside every lookup in self.cache
NoRead == [at |-> "idle", kind |-> "", name |-> "", entry |-> None]

Constructed ==
    /\ now = 0
    /\ cache = EmptyDict
    /\ repos_memo = EmptyDict
    /\ list_memo = EmptyDict
    /\ request_count = 0
    /\ cached_requests = 0
    /\ repos = {Repo}
    /\ pc = "idle"
    /\ op = NoOp
    /\ batch = NoBatch
    /\ req = NoRequest
    /\ attempt = 0
    /\ retries = 0
    /\ resp = None
    /\ result = None
    /\ journal = <<>>
    /\ wired = FALSE
    /\ glog = NoLog
    /\ last = NoLast
    /\ loaded = [t \in Threads |-> NoLoad]
    /\ reader = [t \in Threads |-> NoRead]

Init ==
    /\ Constructed
    /\ files \in [Paths -> 0..1]
    /\ ops = MaxOps

---------------------------------------------------------------------------
(* _make_request and session.request *)

remote == <<files, repos>>
memos == <<repos_memo, list_memo>>
counters == <<request_count, cached_requests>>
call == <<op, batch, result, last, ops, loaded, reader>>

\* _make_request, lines 105-116: a GET with use_cache finds an unexpired entry
CacheHit ==
    /\ pc = "request"
    /\ Cacheable(req)
    /\ Md5Key(req.url) \in DOMAIN cache
    /\ Fresh(cache[Md5Key(req.url)], now, cache_expiry)
    /\ cached_requests' = cached_requests + 1
    /\ resp' = cache[Md5Key(req.url)].value
    /\ journal' = Append(journal, Line(req, cache[Md5Key(req.url)].value))
    /\ glog' = [NoLog EXCEPT !.hit = TRUE]
    /\ pc' = "ret"
    /\ UNCHANGED <<now, cache, memos, request_count, remote, call, req, attempt, retries, wired>>

\* _make_request, lines 118-127: no entry to serve, the first pass of the loop begins
CacheMiss ==
    /\ pc = "request"
    /\ ~(/\ Cacheable(req)
         /\ Md5Key(req.url) \in DOMAIN cache
         /\ Fresh(cache[Md5Key(req.url)], now, cache_expiry))
    /\ attempt' = 0
    /\ request_count' = request_count + 1
    /\ retries' = retry_total
    /\ glog' = Counted(NoLog)
    /\ pc' = "wire"
    /\ UNCHANGED <<now, cache, memos, cached_requests, remote, call, req, resp, journal, wired>>

\* One physical attempt inside session.request (or session.get), ending in outcome o,
\* and everything the client does until the next physical attempt or the return of
\* the dispatch: urllib3's retry, the loop body of _make_request (the store of a
\* successful cacheable GET included) or of _download_from_raw_url.
Wire(o) ==
    /\ pc = "wire"
    /\ o.kind = "served" => WithinBound(req)
    /\ LET srv == Serve(req, files, repos)
           r == CASE o.kind = "served" -> Response(srv.status, FALSE, srv.body)
                  [] o.kind = "fault" -> Response(o.status, o.retry_after, NoBody)
                  [] OTHER -> None
           again == IF IsNone(r) THEN TRUE
                    ELSE is_retry(req.method, r.status, r.retry_after, retries)
           g == Observe(glog, o, r)
       IN  /\ files' = IF o.kind = "served" THEN srv.files ELSE files
           /\ repos' = IF o.kind = "served" THEN srv.repos ELSE repos
           /\ wired' = TRUE
           /\ IF again /\ retries > 0
              THEN /\ retries' = retries - 1
                   /\ glog' = g
                   /\ UNCHANGED <<cache, request_count, pc, attempt, resp, journal>>
              ELSE LET raised == Raised(o, again)
                       v == IF req.raw THEN RawVerdict(raised, r, attempt)
                            ELSE DispatchVerdict(raised, r, attempt)
                   IN  /\ cache' = IF raised = "none" /\ Cacheable(req) /\ r.status < 400
                                   THEN Put(cache, Md5Key(req.url), Entry(r, now))
                                   ELSE cache
                       /\ IF v.again
                          THEN /\ attempt' = attempt + 1
                               /\ request_count' = IF req.raw THEN request_count
                                                   ELSE request_count + 1
                               /\ retries' = retry_total
                               /\ glog' = IF req.raw THEN Slept(g, v.wait)
                                          ELSE Counted(Slept(g, v.wait))
                               /\ UNCHANGED <<pc, resp, journal>>
                          ELSE /\ pc' = "ret"
                               /\ resp' = v.value
                               /\ journal' = Append(journal, Line(req, v.value))
                               /\ glog' = g
                               /\ UNCHANGED <<attempt, retries, request_count>>
    /\ UNCHANGED <<now, memos, cached_requests, call, req>>


---------------------------------------------------------------------------
(* Entering and leaving an API call *)

\* the call starts and reaches its first _make_request; cost: the API calls it makes
BeginAt(o, r, cost) ==
    /\ pc = "idle"
    /\ ops >= cost
    /\ ops' = ops - cost
    /\ op' = o
    /\ req' = r
    /\ pc' = "request"
    /\ journal' = <<>>
    /\ wired' = FALSE
    /\ glog' = NoLog
    /\ resp' = None
    /\ result' = None
    /\ UNCHANGED <<now, counters, remote, attempt, retries, last, loaded, reader>>

Begin(o, r) == BeginAt(o, r, 1)

\* the call starts and returns v without any _make_request
Immediate(o, v) ==
    /\ pc = "idle"
    /\ ops > 0
    /\ ops' = ops - 1
    /\ op' = o
    /\ pc' = "done"
    /\ result' = v
    /\ journal' = <<>>
    /\ wired' = FALSE
    /\ glog' = NoLog
    /\ resp' = None
    /\ UNCHANGED <<now, counters, remote, req, attempt, retries, last, loaded, reader>>

\* after a dispatch returned: the call returns v
Finish(v, failed) ==
    /\ pc' = "done"
    /\ glog' = NoLog
    /\ result' = v
    /\ op' = [op EXCEPT !.failed = failed]
    /\ UNCHANGED req

\* after a dispatch returned: the call goes on to its next _make_request
Continue(r, stage, sha) ==
    /\ pc' = "request"
    /\ glog' = NoLog
    /\ req' = r
    /\ op' = [op EXCEPT !.stage = stage, !.sha = sha]
    /\ UNCHANGED result

\* what a step between two dispatches leaves alone
between == <<now, counters, remote, attempt, retries, resp, journal, wired, last, ops, loaded, reader>>

Is(name, stage) == pc = "ret" /\ op.name = name /\ op.stage = stage

\* `if response and response.status_code == 200` (a Response is truthy when ok)
Is200(r) == ~IsNone(r) /\ r.status = 200

---------------------------------------------------------------------------
(* upload_file, _update_existing_file, batch_upload_files *)

CreatePut(path) == Request("PUT", ContentsUrl(path), FALSE, 0, "", FALSE)
\* an update that carries no sha of the existing file
NoSha(file_info) == 0
\* sha = file_info['sha']
UpdateSha(file_info) == file_info.sha
UpdatePut(path, file_info) ==
    Request("PUT", ContentsUrl(path), FALSE, UpdateSha(file_info), "", FALSE)
\* a metadata fetch that leaves use_cache at its default, True
DefaultGet(path) == Request("GET", ContentsUrl(path), TRUE, 0, "", FALSE)
\* self._make_request("GET", get_url, use_cache=False)
MetadataGet(path) == Request("GET", ContentsUrl(path), FALSE, 0, "", FALSE)

\* upload_file, lines 299-313: what follows the answer to the create PUT
AfterCreate(r) ==
    IF IsNone(r) THEN "fail"
    ELSE IF r.status = 201 THEN "created"
    ELSE IF r.status = 422 THEN "update"
    ELSE "fail"

CallUploadFile(path) ==
    /\ Begin(Op("upload_file", path, "create", 0), CreatePut(path))
    /\ UNCHANGED <<cache, memos, batch>>

RetUploadCreate ==
    /\ Is("upload_file", "create")
    /\ CASE AfterCreate(resp) = "created" -> Finish(resp.body, FALSE)
         [] AfterCreate(resp) = "update" -> Continue(MetadataGet(op.arg), "get", 0)
         [] OTHER -> Finish(None, TRUE)
    /\ UNCHANGED <<between, cache, memos, batch>>

\* _update_existing_file, lines 325-341
RetUploadGet ==
    /\ Is("upload_file", "get")
    /\ IF Is200(resp)
       THEN Continue(UpdatePut(op.arg, resp.body), "update", UpdateSha(resp.body))
       ELSE Finish(None, TRUE)
    /\ UNCHANGED <<between, cache, memos, batch>>

\* an update that returns the body of whatever answer came back
AnyAnswer(r) == IF IsNone(r) THEN None ELSE r.body
\* `if put_response and put_response.status_code == 200: return put_response.json()`,
\* else None
UpdateResult(r) == IF Is200(r) THEN r.body ELSE None

\* _update_existing_file, lines 343-348
RetUploadUpdate ==
    /\ Is("upload_file", "update")
    /\ Finish(UpdateResult(resp), IsNone(UpdateResult(resp)))
    /\ UNCHANGED <<between, cache, memos, batch>>

\* results.append({'path': path, 'success': result is not None, 'result': result})
BatchRecord(path, v) == [path |-> path, success |-> ~IsNone(v), result |-> v]

\* a loop that gives the batch up at the first failed upload
UntilFailure(fs, rs) == Len(rs) < Len(fs) /\ rs[Len(rs)].success
\* `for path, content in files`: is there a file after those already recorded
MoreFiles(fs, rs) == Len(rs) < Len(fs)

Records(rs) == [kind |-> "records", records |-> rs]

BatchInputs == UNION {[1..n -> Paths] : n \in 0..MaxBatch}

CallBatchUploadFiles(fs) ==
    /\ fs # <<>>
    /\ BeginAt(Op("upload_file", fs[1], "create", 0), CreatePut(fs[1]), Len(fs))
    /\ batch' = [active |-> TRUE, files |-> fs, results |-> <<>>]
    /\ UNCHANGED <<cache, memos>>

CallBatchUploadNothing ==
    /\ Immediate(Op("batch_upload_files", "", "", 0), Records(<<>>))
    /\ batch' = [active |-> FALSE, files |-> <<>>, results |-> <<>>]
    /\ UNCHANGED <<cache, memos>>

\* upload_file returned inside the loop of batch_upload_files
BatchCollect ==
    /\ pc = "done"
    /\ op.name = "upload_file"
    /\ batch.active
    /\ LET rs == Append(batch.results, BatchRecord(op.arg, result))
       IN  IF MoreFiles(batch.files, rs)
           THEN /\ batch' = [batch EXCEPT !.results = rs]
                /\ op' = Op("upload_file", batch.files[Len(rs) + 1], "create", 0)
                /\ req' = CreatePut(batch.files[Len(rs) + 1])
                /\ pc' = "request"
                /\ journal' = <<>>
                /\ wired' = FALSE
                /\ result' = None
           ELSE /\ batch' = [batch EXCEPT !.results = rs, !.active = FALSE]
                /\ op' = Op("batch_upload_files", "", "", 0)
                /\ result' = Records(rs)
                /\ pc' = "done"
                /\ UNCHANGED <<req, journal, wired>>
    /\ UNCHANGED <<now, cache, memos, counters, remote, attempt, retries, resp, glog, last, ops, loaded, reader>>

\* the call returns to its caller
ReturnToCaller ==
    /\ pc = "done"
    /\ ~(op.name = "upload_file" /\ batch.active)
    /\ pc' = "idle"
    /\ last' = [name |-> op.name, arg |-> op.arg, sha |-> op.sha, result |-> result,
                failed |-> op.failed, wired |-> wired, start |-> op.start, end |-> now]
    /\ op' = NoOp
    /\ batch' = NoBatch
    /\ req' = NoRequest
    /\ resp' = None
    /\ result' = None
    /\ journal' = <<>>
    /\ wired' = FALSE
    /\ glog' = NoLog
    /\ attempt' = 0
    /\ retries' = 0
    /\ UNCHANGED <<now, cache, memos, counters, remote, ops, loaded, reader>>


---------------------------------------------------------------------------
(* get_file_info, download_file, _download_from_raw_url, delete_file *)

CachedGet(url) == Request("GET", url, TRUE, 0, "", FALSE)

CallGetFileInfo(path) ==
    /\ Begin(Op("get_file_info", path, "get", 0), CachedGet(ContentsUrl(path)))
    /\ UNCHANGED <<cache, memos, batch>>

\* get_file_info, lines 512-529
FileInfoResult(r) ==
    IF IsNone(r) THEN None
    ELSE IF r.status = 200
         THEN IF r.body.type = "file" THEN r.body ELSE None
         ELSE None

RetGetFileInfo ==
    /\ Is("get_file_info", "get")
    /\ Finish(FileInfoResult(resp), ~Is200(resp))
    /\ UNCHANGED <<between, cache, memos, batch>>

CallDownloadFile(path) ==
    /\ Begin(Op("download_file", path, "get", 0), CachedGet(ContentsUrl(path)))
    /\ UNCHANGED <<cache, memos, batch>>

\* response.content, and base64.b64decode(content_encoded): the bytes of the revision
Bytes(rev) == [kind |-> "bytes", content |-> rev]

\* a download that follows the download_url whatever the type of the metadata
AnyType(r) ==
    IF IsNone(r) THEN "fail"
    ELSE IF r.status # 200 THEN "fail"
    ELSE IF r.body.download_url THEN "raw"
    ELSE IF r.body.content # 0 THEN "inline"
    ELSE "empty"
\* download_file, lines 394-423: what follows the metadata
AfterMetadata(r) ==
    IF IsNone(r) THEN "fail"
    ELSE IF r.status # 200 THEN "fail"
    ELSE IF r.body.type = "file"
         THEN IF r.body.download_url THEN "raw"
              ELSE IF r.body.content # 0 THEN "inline"
              ELSE "empty"
         ELSE "fail"

RawGet(path) == Request("GET", RawUrl(path), FALSE, 0, "", TRUE)

\* the metadata names a download_url: _download_from_raw_url starts its loop
RetDownloadLinked ==
    /\ Is("download_file", "get")
    /\ AfterMetadata(resp) = "raw"
    /\ req' = RawGet(op.arg)
    /\ op' = [op EXCEPT !.stage = "raw"]
    /\ attempt' = 0
    /\ retries' = retry_total
    /\ glog' = NoLog
    /\ pc' = "wire"
    /\ UNCHANGED <<now, cache, memos, counters, remote, batch, resp, result, journal, wired,
                   last, ops, loaded, reader>>

RetDownloadInline ==
    /\ Is("download_file", "get")
    /\ AfterMetadata(resp) # "raw"
    /\ IF AfterMetadata(resp) = "inline"
       THEN Finish(Bytes(resp.body.content), FALSE)
       ELSE Finish(None, TRUE)
    /\ UNCHANGED <<between, cache, memos, batch>>

RetDownloadRaw ==
    /\ Is("download_file", "raw")
    /\ IF IsNone(resp) THEN Finish(None, TRUE) ELSE Finish(Bytes(resp.body.content), FALSE)
    /\ UNCHANGED <<between, cache, memos, batch>>

\* a delete_file that reports success whatever the answer
Done(b) == [kind |-> "bool", value |-> TRUE]
Bool(b) == [kind |-> "bool", value |-> b]

CallDeleteFile(path, sha) ==
    /\ Begin(Op("delete_file", path, "delete", sha),
             Request("DELETE", ContentsUrl(path), FALSE, sha, "", FALSE))
    /\ UNCHANGED <<cache, memos, batch>>

\* delete_file, lines 490-498
RetDeleteFile ==
    /\ Is("delete_file", "delete")
    /\ Finish(Bool(Is200(resp)), ~Is200(resp))
    /\ UNCHANGED <<between, cache, memos, batch>>

---------------------------------------------------------------------------
(* get_repo_by_name, create_repo, get_user_repos, list_files, clear_cache *)

\* get_repo_by_name, lines 207-211: the entry under repo_<name> is there and unexpired
RepoCached(name) ==
    /\ RepoKey(name) \in DOMAIN cache
    /\ Fresh(cache[RepoKey(name)], now, cache_expiry)

RepoGet(name) == Request("GET", RepoUrl(name), FALSE, 0, "", FALSE)

CallGetRepoByName(name) ==
    /\ IF RepoCached(name)
       THEN Immediate(Op("get_repo_by_name", name, "repo", 0), cache[RepoKey(name)].value)
       ELSE Begin(Op("get_repo_by_name", name, "repo", 0), RepoGet(name))
    /\ UNCHANGED <<cache, memos, batch>>

\* get_repo_by_name, lines 216-220, called by the user or by create_repo
RetRepo ==
    /\ pc = "ret"
    /\ op.name \in {"get_repo_by_name", "create_repo"}
    /\ op.stage = "repo"
    /\ IF Is200(resp)
       THEN /\ cache' = Put(cache, RepoKey(op.arg), Entry(resp.body, now))
            /\ Finish(resp.body, FALSE)
       ELSE /\ Finish(None, TRUE)
            /\ UNCHANGED cache
    /\ UNCHANGED <<between, memos, batch>>

CallCreateRepo(name) ==
    /\ Begin(Op("create_repo", name, "post", 0),
             Request("POST", CreateRepoUrl, FALSE, 0, name, FALSE))
    /\ UNCHANGED <<cache, memos, batch>>

\* create_repo, lines 237-252
RetCreateRepo ==
    /\ Is("create_repo", "post")
    /\ IF IsNone(resp) THEN Finish(None, TRUE) /\ UNCHANGED cache
       ELSE IF resp.status = 201
            THEN Finish(resp.body, FALSE) /\ cache' = ClearRepoCache(cache)
       ELSE IF resp.status = 422
            THEN /\ IF RepoCached(op.arg)
                    THEN Finish(cache[RepoKey(op.arg)].value, FALSE)
                    ELSE Continue(RepoGet(op.arg), "repo", 0)
                 /\ UNCHANGED cache
       ELSE Finish(None, TRUE) /\ UNCHANGED cache
    /\ UNCHANGED <<between, memos, batch>>

\* wrapper of cache_result, lines 35-39
MemoHit(memo, key, expiry) == key \in DOMAIN memo /\ Fresh(memo[key], now, expiry)
\* wrapper of cache_result, lines 45-46
MemoStore(memo, key, v) == IF IsNone(v) THEN memo ELSE Put(memo, key, Entry(v, now))

ReposArgs == <<"()", "{}">>
ListArgs == <<"('r',)", "{}">>

CallGetUserRepos ==
    /\ IF MemoHit(repos_memo, MemoKey(ReposArgs), repos_expiry)
       THEN Immediate(Op("get_user_repos", "", "get", 0), repos_memo[MemoKey(ReposArgs)].value)
       ELSE Begin(Op("get_user_repos", "", "get", 0), CachedGet(UserReposUrl))
    /\ UNCHANGED <<cache, memos, batch>>

\* get_user_repos, lines 189-199, and the wrapper's store
RetGetUserRepos ==
    /\ Is("get_user_repos", "get")
    /\ LET v == IF Is200(resp) THEN resp.body ELSE None
       IN  /\ Finish(v, ~Is200(resp))
           /\ repos_memo' = MemoStore(repos_memo, MemoKey(ReposArgs), v)
    /\ UNCHANGED <<between, cache, list_memo, batch>>

\* `return []`
EmptyList == [kind |-> "listing", items |-> {}]

ListingGet(repo_info) == CachedGet(ListingUrl(Root, repo_info.default_branch))

\* list_files(repo): the wrapper's lookup, then get_repo_by_name from its own cache
CallListFiles ==
    /\ IF MemoHit(list_memo, MemoKey(ListArgs), list_expiry)
       THEN Immediate(Op("list_files", Repo, "memo", 0), list_memo[MemoKey(ListArgs)].value)
       ELSE IF RepoCached(Repo)
            THEN Begin(Op("list_files", Repo, "listing", 0),
                       ListingGet(cache[RepoKey(Repo)].value))
            ELSE Begin(Op("list_files", Repo, "repo", 0), RepoGet(Repo))
    /\ UNCHANGED <<cache, memos, batch>>

\* list_files, lines 359-368: get_repo_by_name answered from the network
RetListRepo ==
    /\ Is("list_files", "repo")
    /\ IF Is200(resp)
       THEN /\ cache' = Put(cache, RepoKey(Repo), Entry(resp.body, now))
            /\ Continue(ListingGet(resp.body), "listing", 0)
            /\ UNCHANGED list_memo
       ELSE /\ Finish(EmptyList, TRUE)
            /\ list_memo' = MemoStore(list_memo, MemoKey(ListArgs), EmptyList)
            /\ UNCHANGED cache
    /\ UNCHANGED <<between, repos_memo, batch>>

\* list_files, lines 370-379, and the wrapper's store
RetListListing ==
    /\ Is("list_files", "listing")
    /\ LET v == IF Is200(resp) THEN resp.body ELSE EmptyList
       IN  /\ Finish(v, ~Is200(resp))
           /\ list_memo' = MemoStore(list_memo, MemoKey(ListArgs), v)
    /\ UNCHANGED <<between, cache, repos_memo, batch>>

\* self.cache.clear()
CallClearCache ==
    /\ Immediate(Op("clear_cache", "", "", 0), None)
    /\ cache' = EmptyDict
    /\ UNCHANGED <<memos, batch>>

\* a / b of Python, kept as the fraction
Ratio(a, b) == [num |-> a, den |-> b]

\* get_api_usage_stats, lines 563-567
UsageStats ==
    [kind |-> "stats",
     total_requests |-> request_count,
     cached_requests |-> cached_requests,
     cache_hit_rate |-> IF request_count > 0 THEN Ratio(cached_requests, request_count)
                        ELSE Ratio(0, 1)]

\* get_api_usage_stats makes no request and is no call of the remote API
CallGetApiUsageStats ==
    /\ pc = "idle"
    /\ op' = Op("get_api_usage_stats", "", "", 0)
    /\ pc' = "done"
    /\ result' = UsageStats
    /\ journal' = <<>>
    /\ wired' = FALSE
    /\ glog' = NoLog
    /\ resp' = None
    /\ UNCHANGED <<now, cache, memos, counters, remote, batch, req, attempt, retries, last, ops, loaded, reader>>

\* close, lines 574-577: the session is closed, nothing of the client changes
CallClose ==
    /\ Immediate(Op("close", "", "", 0), None)
    /\ UNCHANGED <<cache, memos, batch>>

---------------------------------------------------------------------------
(* _make_request on the threads that share one client *)

sequential == <<pc, op, batch, req, attempt, retries, resp, result, journal, wired, glog, last>>

\* the entry of self.cache that answers the GET of get_file_info(p), lines 107-113
ThreadHit(p) ==
    /\ Md5Key(ContentsUrl(p)) \in DOMAIN cache
    /\ Fresh(cache[Md5Key(ContentsUrl(p))], now, cache_expiry)

\* thread t enters _make_request for the GET of get_file_info(p) and reaches the
\* read of its `+= 1`: of self.cached_requests (line 114) when an unexpired entry
\* is found, of self.request_count (line 125) otherwise
ThreadRead(t, p) ==
    /\ loaded[t] = NoLoad
    /\ ops > 0
    /\ ops' = ops - 1
    /\ loaded' = [loaded EXCEPT ![t] =
                    IF ThreadHit(p)
                    THEN [counter |-> "cached_requests", value |-> cached_requests, path |-> p]
                    ELSE [counter |-> "request_count", value |-> request_count, path |-> p]]
    /\ UNCHANGED <<now, cache, memos, counters, remote, sequential, reader>>

\* line 114, the write of `self.cached_requests += 1`, and the return of line 116
ThreadWriteHit(t) ==
    /\ loaded[t].counter = "cached_requests"
    /\ cached_requests' = loaded[t].value + 1
    /\ loaded' = [loaded EXCEPT ![t] = NoLoad]
    /\ UNCHANGED <<now, cache, memos, request_count, remote, sequential, ops, reader>>

\* line 125, the write of `self.request_count += 1`, then lines 127-154 for an
\* answer that ends the dispatch: a response below 400 to the GET is stored
ThreadWriteMiss(t, o) ==
    /\ loaded[t].counter = "request_count"
    /\ request_count' = loaded[t].value + 1
    /\ loaded' = [loaded EXCEPT ![t] = NoLoad]
    /\ LET srv == Serve(CachedGet(ContentsUrl(loaded[t].path)), files, repos)
           r == IF o.kind = "served" THEN Response(srv.status, FALSE, srv.body)
                ELSE Response(o.status, o.retry_after, NoBody)
       IN  cache' = IF r.status < 400
                    THEN Put(cache, Md5Key(ContentsUrl(loaded[t].path)), Entry(r, now))
                    ELSE cache
    /\ UNCHANGED <<now, memos, cached_requests, remote, sequential, ops, reader>>

---------------------------------------------------------------------------
(* The lookups in self.cache on the threads that share one client *)

\* what the threads look up: get_repo_by_name(n) under f"repo_{n}" (line 207) and
\* the GET of get_file_info(p) under the md5 of its url (line 108)
Lookups == {<<"repo", n>> : n \in RepoNames} \cup {<<"contents", p>> : p \in Paths}

CacheKey(kind, name) == IF kind = "repo" THEN RepoKey(name) ELSE Md5Key(ContentsUrl(name))

LookupGet(kind, name) == IF kind = "repo" THEN RepoGet(name) ELSE CachedGet(ContentsUrl(name))

\* the thread is past the lookup and has read the counter of its `+= 1`
Reading(t, counter) ==
    [loaded EXCEPT ![t] = [counter |-> counter, path |-> reader[t].name,
                           value |-> IF counter = "request_count" THEN request_count
                                     ELSE cached_requests]]

\* lines 208 and 111, `cache_key in self.cache`: the thread goes on to the subscript
\* of the next line when the key is there, and otherwise to the request, up to the
\* read of `self.request_count += 1` (line 125)
CacheContains(t, kind, name) ==
    /\ reader[t].at = "idle"
    /\ loaded[t] = NoLoad
    /\ ops > 0
    /\ ops' = ops - 1
    /\ IF CacheKey(kind, name) \in DOMAIN cache
       THEN /\ reader' = [reader EXCEPT ![t] = [NoRead EXCEPT !.at = "subscript",
                                                           !.kind = kind, !.name = name]]
            /\ UNCHANGED loaded
       ELSE /\ reader' = [reader EXCEPT ![t] = [NoRead EXCEPT !.at = "request",
                                                           !.kind = kind, !.name = name]]
            /\ loaded' = [loaded EXCEPT ![t] = [counter |-> "request_count", path |-> name,
                                                value |-> request_count]]
    /\ UNCHANGED <<now, cache, memos, counters, remote, sequential>>

\* lines 209-210 and 112-113, `result, timestamp = self.cache[cache_key]` and the
\* test of the timestamp: an unexpired entry is the result (for _make_request after
\* `self.cached_requests += 1`, read here), an expired one sends the thread to the
\* request; a key that is gone raises KeyError, outside every try of the two functions
CacheSubscript(t) ==
    /\ reader[t].at = "subscript"
    /\ LET k == CacheKey(reader[t].kind, reader[t].name)
       IN  IF k \in DOMAIN cache
           THEN IF Fresh(cache[k], now, cache_expiry)
                THEN /\ reader' = [reader EXCEPT ![t].at = "hit", ![t].entry = cache[k]]
                     /\ loaded' = IF reader[t].kind = "repo" THEN loaded
                                  ELSE Reading(t, "cached_requests")
                ELSE /\ reader' = [reader EXCEPT ![t].at = "request", ![t].entry = cache[k]]
                     /\ loaded' = Reading(t, "request_count")
           ELSE /\ reader' = [reader EXCEPT ![t].at = "raised"]
                /\ UNCHANGED loaded
    /\ UNCHANGED <<now, cache, memos, counters, remote, sequential, ops>>

\* line 125, the write of `self.request_count += 1`, then the answer that ends the
\* dispatch and the store of lines 130-131 (a response below 400) or of line 218
\* (the json of a 200)
CacheAnswer(t, o) ==
    /\ reader[t].at = "request"
    /\ request_count' = loaded[t].value + 1
    /\ LET srv == Serve(LookupGet(reader[t].kind, reader[t].name), files, repos)
           r == IF o.kind = "served" THEN Response(srv.status, FALSE, srv.body)
                ELSE Response(o.status, o.retry_after, NoBody)
           k == CacheKey(reader[t].kind, reader[t].name)
       IN  cache' = IF reader[t].kind = "repo"
                    THEN IF r.status = 200 THEN Put(cache, k, Entry(r.body, now)) ELSE cache
                    ELSE IF r.status < 400 THEN Put(cache, k, Entry(r, now)) ELSE cache
    /\ reader' = [reader EXCEPT ![t] = NoRead]
    /\ loaded' = [loaded EXCEPT ![t] = NoLoad]
    /\ UNCHANGED <<now, memos, cached_requests, remote, sequential, ops>>

\* the lookup is over: line 211 returns the result, lines 114-116 write
\* `self.cached_requests += 1` and return it, or the KeyError leaves the function
CacheReturn(t) ==
    /\ reader[t].at \in {"hit", "raised"}
    /\ cached_requests' = IF loaded[t].counter = "cached_requests" THEN loaded[t].value + 1
                          ELSE cached_requests
    /\ reader' = [reader EXCEPT ![t] = NoRead]
    /\ loaded' = [loaded EXCEPT ![t] = NoLoad]
    /\ UNCHANGED <<now, cache, memos, request_count, remote, sequential, ops>>

\* create_repo(n) on another thread, answered 201: lines 234-244 with _clear_repo_cache
ThreadCreateRepo(n) ==
    /\ n \notin repos
    /\ ops > 0
    /\ ops' = ops - 1
    /\ repos' = repos \cup {n}
    /\ request_count' = request_count + 1
    /\ cache' = ClearRepoCache(cache)
    /\ UNCHANGED <<now, memos, cached_requests, files, sequential, loaded, reader>>

\* GitHubClient(token, username) once more in the same process, for another account:
\* the new instance has its own self.cache, counters and session (lines 56-77) and
\* is the client of the calls that follow; the dicts closed over by cache_result
\* belong to the decorated functions of the class and stay; files and repos become
\* the remote as the new credentials see it
NewClient ==
    /\ pc = "idle"
    /\ last.name \notin {"none", "GitHubClient"}
    /\ cache' = EmptyDict
    /\ request_count' = 0
    /\ cached_requests' = 0
    /\ files' \in [Paths -> 0..1]
    /\ repos' \in {{Repo}, RepoNames}
    /\ last' = [NoLast EXCEPT !.name = "GitHubClient"]
    /\ UNCHANGED <<now, memos, pc, op, batch, req, attempt, retries, resp, result, journal,
                   wired, glog, ops, loaded, reader>>

---------------------------------------------------------------------------
(* The environment *)

\* the clock moves on
Tick ==
    /\ pc = "idle"
    /\ \E t \in Instants : t > now /\ now' = t
    /\ UNCHANGED <<cache, memos, counters, remote, pc, op, batch, req, attempt, retries,
                   resp, result, journal, wired, glog, last, ops, loaded, reader>>

\* another writer commits a revision of a file
OtherWriter ==
    /\ pc \in {"idle", "request"}
    /\ \E p \in Paths : files[p] < MaxVer /\ files' = [files EXCEPT ![p] = @ + 1]
    /\ UNCHANGED <<now, cache, memos, counters, repos, pc, op, batch, req, attempt, retries,
                   resp, result, journal, wired, glog, last, ops, loaded, reader>>

\* the outcomes the call-level specifications draw from: served, a refused
\* credential (terminal), an unavailable service (retried by urllib3 to exhaustion)
ApiOutcomes == {o \in Outcomes : o.kind \in {"served", "fault"} /\ o.status \in {0, 401, 503}}
UploadOutcomes == ApiOutcomes \cup {o \in Outcomes : o.kind = "connection"}
\* outcomes after which neither retry layer sends the request again
SingleAttemptOutcomes == {o \in ApiOutcomes : o.status \in {0, 401}}

\* The client with every operation
Next ==
    \/ \E p \in Paths : CallUploadFile(p)
    \/ \E fs \in BatchInputs : CallBatchUploadFiles(fs)
    \/ CallBatchUploadNothing
    \/ \E p \in Paths : CallGetFileInfo(p)
    \/ \E p \in Paths : CallDownloadFile(p)
    \/ \E p \in Paths, sha \in 1..MaxVer : CallDeleteFile(p, sha)
    \/ \E n \in RepoNames : CallGetRepoByName(n)
    \/ \E n \in RepoNames : CallCreateRepo(n)
    \/ CallGetUserRepos
    \/ CallListFiles
    \/ CallClearCache
    \/ CacheHit
    \/ CacheMiss
    \/ \E o \in ApiOutcomes : Wire(o)
    \/ RetUploadCreate
    \/ RetUploadGet
    \/ RetUploadUpdate
    \/ BatchCollect
    \/ RetGetFileInfo
    \/ RetDownloadLinked
    \/ RetDownloadInline
    \/ RetDownloadRaw
    \/ RetDeleteFile
    \/ RetRepo
    \/ RetCreateRepo
    \/ RetGetUserRepos
    \/ RetListRepo
    \/ RetListListing
    \/ ReturnToCaller
    \/ Tick

Spec == Init /\ [][Next]_vars

\* One dispatch after another, with every outcome of a physical attempt: a cached
\* GET (get_file_info) and an uncached DELETE (delete_file)
NextDispatch ==
    \/ \E p \in Paths : CallGetFileInfo(p)
    \/ \E p \in Paths, sha \in 1..MaxVer : CallDeleteFile(p, sha)
    \/ CacheHit
    \/ CacheMiss
    \/ \E o \in Outcomes : Wire(o)
    \/ RetGetFileInfo
    \/ RetDeleteFile
    \/ ReturnToCaller

SpecDispatch == Init /\ [][NextDispatch]_vars

\* upload_file against a remote that other writers change too
NextUpload ==
    \/ \E p \in Paths : CallUploadFile(p)
    \/ CacheMiss
    \/ \E o \in UploadOutcomes : Wire(o)
    \/ RetUploadCreate
    \/ RetUploadGet
    \/ RetUploadUpdate
    \/ ReturnToCaller
    \/ OtherWriter

SpecUpload == Init /\ [][NextUpload]_vars

\* batch_upload_files
InitBatch ==
    /\ Constructed
    /\ files \in [Paths -> 0..1]
    /\ ops = MaxBatch

NextBatch ==
    \/ \E fs \in BatchInputs : CallBatchUploadFiles(fs)
    \/ CallBatchUploadNothing
    \/ CacheMiss
    \/ \E o \in ApiOutcomes : Wire(o)
    \/ RetUploadCreate
    \/ RetUploadGet
    \/ RetUploadUpdate
    \/ BatchCollect
    \/ ReturnToCaller

SpecBatch == InitBatch /\ [][NextBatch]_vars

\* a read, a write, a read
InitStale ==
    /\ Constructed
    /\ files \in [Paths -> 0..1]
    /\ ops = MaxStaleOps

NextStale ==
    \/ \E p \in Paths : CallUploadFile(p)
    \/ \E p \in Paths : CallGetFileInfo(p)
    \/ \E p \in Paths, sha \in 1..MaxVer : CallDeleteFile(p, sha)
    \/ CacheHit
    \/ CacheMiss
    \/ \E o \in ApiOutcomes : Wire(o)
    \/ RetUploadCreate
    \/ RetUploadGet
    \/ RetUploadUpdate
    \/ RetGetFileInfo
    \/ RetDeleteFile
    \/ ReturnToCaller

SpecStale == InitStale /\ [][NextStale]_vars

\* download_file over files with a download_url, files served inline, a file with
\* no content and a path that is not a file
NextDownload ==
    \/ \E p \in Paths \cup {NonFile, Hollow} : CallDownloadFile(p)
    \/ CacheHit
    \/ CacheMiss
    \/ \E o \in ApiOutcomes : Wire(o)
    \/ RetDownloadLinked
    \/ RetDownloadInline
    \/ RetDownloadRaw
    \/ ReturnToCaller

SpecDownload == Init /\ [][NextDownload]_vars

\* reads of file metadata, each dispatch one cache hit or one physical attempt, and
\* the usage snapshot
NextUsage ==
    \/ \E p \in Paths : CallGetFileInfo(p)
    \/ CacheHit
    \/ CacheMiss
    \/ \E o \in SingleAttemptOutcomes : Wire(o)
    \/ RetGetFileInfo
    \/ CallGetApiUsageStats
    \/ ReturnToCaller

SpecUsage == Init /\ [][NextUsage]_vars

\* reads by one client, then by a second client of the same process
NextClients ==
    \/ CallGetUserRepos
    \/ CallListFiles
    \/ \E p \in Paths : CallGetFileInfo(p)
    \/ NewClient
    \/ CacheHit
    \/ CacheMiss
    \/ \E o \in ApiOutcomes : Wire(o)
    \/ RetGetUserRepos
    \/ RetListRepo
    \/ RetListListing
    \/ RetGetFileInfo
    \/ ReturnToCaller

SpecClients == Init /\ [][NextClients]_vars

\* One client shared by the threads of Threads, with clear_cache and close
InitThreads ==
    /\ Constructed
    /\ files \in [Paths -> 0..1]
    /\ ops = MaxThreadOps

NextThreads ==
    \/ \E t \in Threads, p \in Paths : ThreadRead(t, p)
    \/ \E t \in Threads : ThreadWriteHit(t)
    \/ \E t \in Threads, o \in SingleAttemptOutcomes : ThreadWriteMiss(t, o)
    \/ CallClearCache
    \/ CallClose
    \/ ReturnToCaller

SpecThreads == InitThreads /\ [][NextThreads]_vars

\* The lookups of the threads against the stores and the removals
NextRace ==
    \/ \E t \in Threads, l \in Lookups : CacheContains(t, l[1], l[2])
    \/ \E t \in Threads : CacheSubscript(t)
    \/ \E t \in Threads, o \in SingleAttemptOutcomes : CacheAnswer(t, o)
    \/ \E t \in Threads : CacheReturn(t)
    \/ \E n \in RepoNames : ThreadCreateRepo(n)
    \/ CallClearCache
    \/ ReturnToCaller
    \/ Tick

SpecRace == InitThreads /\ [][NextRace]_vars

\* The reads of the client and clear_cache, in any order
NextClear ==
    \/ \E p \in Paths : CallGetFileInfo(p)
    \/ \E p \in Paths : CallDownloadFile(p)
    \/ CallListFiles
    \/ CallGetUserRepos
    \/ \E n \in RepoNames : CallGetRepoByName(n)
    \/ CallClearCache
    \/ CacheHit
    \/ CacheMiss
    \/ \E o \in SingleAttemptOutcomes : Wire(o)
    \/ RetGetFileInfo
    \/ RetDownloadLinked
    \/ RetDownloadInline
    \/ RetDownloadRaw
    \/ RetListRepo
    \/ RetListListing
    \/ RetGetUserRepos
    \/ RetRepo
    \/ ReturnToCaller

SpecClear == InitStale /\ [][NextClear]_vars

\* upload_file against every outcome of a physical attempt and a concurrent writer
InitUploads ==
    /\ Constructed
    /\ files \in [Paths -> 0..1]
    /\ ops = MaxUploads

\* the steps of the thread that runs upload_file
UploadStep ==
    \/ CacheMiss
    \/ \E o \in Outcomes : Wire(o)
    \/ RetUploadCreate
    \/ RetUploadGet
    \/ RetUploadUpdate

NextUploads ==
    \/ \E p \in Paths : CallUploadFile(p)
    \/ CacheMiss
    \/ \E o \in Outcomes : Wire(o)
    \/ RetUploadCreate
    \/ RetUploadGet
    \/ RetUploadUpdate
    \/ ReturnToCaller
    \/ OtherWriter

\* a running call goes on: every statement of upload_file and _make_request is
\* followed by the next, time.sleep returns, and session.request returns or raises
\* within its timeout (line 120)
SpecUploads == InitUploads /\ [][NextUploads]_vars /\ WF_vars(UploadStep)


---------------------------------------------------------------------------
(* Properties of one dispatch, under SpecDispatch *)

\* a dispatch of _make_request has just returned to its caller
Returned == pc = "ret" /\ ~req.raw

\* C2: a dispatch in which every physical attempt is answered with a status of
\* {429, 500, 502, 503, 504} makes exactly 3 physical attempts, sleeps 2^attempt + 1
\* seconds after attempt 0 and after attempt 1 (2 s, then 3 s) and not after the
\* last one, and returns the last response, not the no-response failure.
C2_RetryExhaustion ==
    (Returned /\ glog.wire > 0 /\ glog.allForced) =>
        /\ glog.wire = 3
        /\ glog.sleeps = <<2, 3>>
        /\ ~IsNone(resp)
        /\ resp.status = glog.lastStatus

\* C3: for N consecutive 503 answers followed by a 200 the dispatch returns the 200
\* for every N <= 3, and for N > 3 (its answers are 503 until it gives up) it ends
\* in failure after exactly 3 physical attempts.
C3_RetryBound ==
    /\ (/\ pc \in {"wire", "ret"} /\ ~req.raw
        /\ glog.lead503 <= 3 /\ glog.wire = glog.lead503 + 1
        /\ glog.lastKind = "response" /\ glog.lastStatus = 200)
            => (pc = "ret" /\ ~IsNone(resp) /\ resp.status = 200)
    /\ (Returned /\ glog.wire > 0 /\ glog.lead503 = glog.wire)
            => (glog.wire = 3 /\ (IsNone(resp) \/ resp.status = 503))

\* the statuses >= 400 that the claim calls non-retryable
NonRetryable(status) == status >= 400 /\ status \notin {429, 500, 502, 503, 504}

\* C4: a dispatch whose first physical attempt is answered with 401, 403 or any other
\* status >= 400 outside {429, 500, 502, 503, 504} returns that response after exactly
\* one attempt, with no sleep and no second attempt.
C4_NonRetryable ==
    (/\ pc \in {"wire", "ret"} /\ ~req.raw
     /\ glog.wire = 1 /\ glog.lastKind = "response" /\ NonRetryable(glog.lastStatus))
        => (/\ pc = "ret"
            /\ ~IsNone(resp)
            /\ resp.status = glog.lastStatus
            /\ glog.sleeps = <<>>)

\* C5: transport failures are retried like a retryable status: when every attempt
\* fails at transport level the dispatch sleeps 2 s and 3 s, gives up after 3
\* attempts and returns None; and None is never returned when the last attempt
\* produced an HTTP response.
C5_TransportFailures ==
    /\ (Returned /\ glog.wire > 0 /\ IsNone(resp) /\ glog.lastKind # "response")
            => (glog.wire = 3 /\ glog.sleeps = <<2, 3>>)
    /\ (Returned /\ glog.wire > 0 /\ IsNone(resp)) => glog.lastKind # "response"


---------------------------------------------------------------------------
(* upload_file, under SpecUpload *)

\* upload_file(path) has returned; journal holds its dispatches in order
Uploaded == pc = "done" /\ op.name = "upload_file"

IsCreatePut(l, path) == l.method = "PUT" /\ l.url = ContentsUrl(path) /\ l.sha = 0
IsMetadataGet(l, path) == l.method = "GET" /\ l.url = ContentsUrl(path)
IsUpdatePut(l, path, sha) == l.method = "PUT" /\ l.url = ContentsUrl(path) /\ l.sha = sha

\* C1 (as stated): upload_file(path) with the create PUT answered 201 returns the
\* metadata after exactly one PUT; with the create PUT answered 422 it issues, in
\* order, the create PUT without sha, one GET of the file metadata and one update
\* PUT whose sha is the sha returned by that GET.
C1_UploadUpsert ==
    Uploaded =>
        /\ Len(journal) >= 1
        /\ IsCreatePut(journal[1], op.arg)
        /\ journal[1].status = 201 =>
              /\ Len(journal) = 1
              /\ result = Commit(op.arg, result.sha)
        /\ journal[1].status = 422 =>
              /\ Len(journal) = 3
              /\ IsMetadataGet(journal[2], op.arg)
              /\ IsUpdatePut(journal[3], op.arg, journal[2].got)

\* C1 (amended): as stated for 201; with the create PUT answered 422 upload_file
\* issues the create PUT without sha, then one GET of the file metadata, and, if and
\* only if that GET is answered 200, one update PUT whose sha is exactly the sha
\* that GET returned; when the GET is not answered 200 no update PUT is issued and
\* the call returns None.
C1_UploadUpsertAmended ==
    Uploaded =>
        /\ Len(journal) >= 1
        /\ IsCreatePut(journal[1], op.arg)
        /\ journal[1].status = 201 =>
              /\ Len(journal) = 1
              /\ result = Commit(op.arg, result.sha)
        /\ journal[1].status \notin {201, 422} => (Len(journal) = 1 /\ IsNone(result))
        /\ journal[1].status = 422 =>
              /\ Len(journal) >= 2
              /\ IsMetadataGet(journal[2], op.arg)
              /\ journal[2].status = 200 =>
                    /\ Len(journal) = 3
                    /\ journal[2].got > 0
                    /\ IsUpdatePut(journal[3], op.arg, journal[2].got)
              /\ journal[2].status # 200 => (Len(journal) = 2 /\ IsNone(result))

\* an upload that went create PUT (422), GET (200), update PUT (200)
C1_Witness ==
    /\ Uploaded
    /\ Len(journal) = 3
    /\ journal[1].status = 422
    /\ journal[2].status = 200
    /\ journal[3].status = 200
    /\ journal[3].sha = journal[2].got
    /\ ~IsNone(result)

---------------------------------------------------------------------------
(* batch_upload_files, under SpecBatch *)

\* C10: batch_upload_files over n files uploads them one at a time in input order and
\* returns exactly n records in input order, record i naming file i; a failed upload
\* marks only its own record unsuccessful and the files after it are still attempted.
C10_BatchIsolation ==
    /\ batch.active =>
          /\ op.name = "upload_file"
          /\ Len(batch.results) < Len(batch.files)
          /\ op.arg = batch.files[Len(batch.results) + 1]
    /\ \A i \in 1..Len(batch.results) :
          /\ batch.results[i].path = batch.files[i]
          /\ batch.results[i].success = ~IsNone(batch.results[i].result)
          /\ batch.results[i].success => batch.results[i].result.path = batch.files[i]
    /\ (pc = "done" /\ op.name = "batch_upload_files") =>
          /\ result.records = batch.results
          /\ Len(result.records) = Len(batch.files)

\* a batch of three files whose second upload failed and whose third succeeded
C10_Witness ==
    /\ pc = "done"
    /\ op.name = "batch_upload_files"
    /\ Len(result.records) = 3
    /\ result.records[1].success
    /\ ~result.records[2].success
    /\ result.records[3].success


---------------------------------------------------------------------------
(* Two consecutive calls on one client: `last` is the call before `op` *)

Reads == {"get_file_info", "download_file", "list_files", "get_user_repos",
          "get_repo_by_name"}

\* the read that has just finished is the same read as the call before it
SameRead == pc = "done" /\ op.name \in Reads /\ last.name = op.name /\ last.arg = op.arg

\* the time a value of this read stays valid
Ttl(name) == IF name = "list_files" THEN 180 ELSE 300

\* C6: of two reads of the same resource on one client within the TTL window, with
\* nothing invalidated in between, the second returns the value the first returned
\* and performs no network call.
C6_CacheCorrectness ==
    (/\ SameRead
     /\ last.wired /\ ~last.failed /\ ~IsNone(last.result)
     /\ op.start - last.start < Ttl(op.name))
        => (~wired /\ result = last.result)

\* C7: a read issued when the TTL of that read (180 s for list_files, 300 s for the
\* others) has elapsed since the value was stored performs a fresh network call.
C7_CacheExpiry ==
    (/\ SameRead
     /\ last.wired /\ ~last.failed
     /\ op.start - last.end >= Ttl(op.name))
        => wired

\* C9: a read that failed stores nothing in any cache layer: the next identical read
\* performs a network call instead of being served the failure.
C9_OnlySuccessCached ==
    (SameRead /\ last.wired /\ last.failed) => wired

\* C8: after upload_file or delete_file succeeded on a path, a get_file_info of that
\* path never returns pre-mutation data: after an upload it returns the uploaded
\* revision (or fails), after a delete it returns nothing.
C8_Invalidation ==
    (/\ pc = "done" /\ op.name = "get_file_info"
     /\ last.name \in {"upload_file", "delete_file"}
     /\ last.arg = op.arg /\ ~last.failed)
        => \/ IsNone(result)
           \/ last.name = "upload_file" /\ result.sha >= last.result.sha


---------------------------------------------------------------------------
(* download_file, under SpecDownload *)

\* download_file(path) has returned after its metadata request was answered 200
Downloaded ==
    pc = "done" /\ op.name = "download_file" /\ journal # <<>> /\ journal[1].status = 200

\* C11: in download_file, metadata of type 'file' with a download_url: the content is
\* fetched through that reference; type 'file' without it: the inline payload is
\* decoded and no further request is made; a type other than 'file': the download
\* fails with no request for the reference and no decoding of the payload.
C11_DownloadFallback ==
    Downloaded =>
        LET m == journal[1].body
        IN  /\ (m.type = "file" /\ m.download_url) =>
                  /\ Len(journal) = 2
                  /\ journal[2].method = "GET"
                  /\ journal[2].url = RawUrl(op.arg)
                  /\ result = IF journal[2].status = 200
                              THEN Bytes(journal[2].body.content) ELSE None
            /\ (m.type = "file" /\ ~m.download_url) =>
                  /\ Len(journal) = 1
                  /\ result = IF m.content # 0 THEN Bytes(m.content) ELSE None
            /\ m.type # "file" =>
                  /\ Len(journal) = 1
                  /\ IsNone(result)

\* a download of a path that is not a file has failed on its metadata alone, and
\* the download before it fetched a file through its download_url
C11_Witness ==
    /\ Downloaded
    /\ journal[1].body.type # "file"
    /\ journal[1].body.download_url
    /\ IsNone(result)
    /\ last.name = "download_file"
    /\ last.arg \in Linked
    /\ last.result = Bytes(1)


---------------------------------------------------------------------------
(* The usage counters, under SpecDispatch *)

\* the step is a cache hit of _make_request
HitStep == pc = "request" /\ pc' = "ret"

\* C12: request_count increases by exactly one for each physical network attempt
\* (each retry included) and by nothing else: when a dispatch returns, the increments
\* it made are as many as its physical attempts; cached_requests increases by exactly
\* one for each cache hit, and a cache hit leaves request_count unchanged.
C12_RequestCounting ==
    /\ [](pc = "ret" => glog.counted = glog.wire)
    /\ [][/\ cached_requests' = cached_requests + (IF HitStep THEN 1 ELSE 0)
          /\ HitStep => request_count' = request_count]_vars


\* C13 (under SpecUsage): after M calls of which K were served from the cache, each
\* of the other M - K making one network attempt, get_api_usage_stats reports
\* cached_requests = K, total_requests = M - K and cache_hit_rate = K / M.
C13_HitRate ==
    (pc = "done" /\ op.name = "get_api_usage_stats" /\ ops < MaxOps) =>
        LET M == MaxOps - ops
            K == result.cached_requests
        IN  /\ result.total_requests = M - K
            /\ result.cache_hit_rate.num * M = K * result.cache_hit_rate.den


---------------------------------------------------------------------------
(* Failure kinds seen by the caller, under SpecDispatch *)

\* the dispatch of the call that has finished was answered 401 or 403
AuthRefused == journal # <<>> /\ journal[Len(journal)].status \in {401, 403}

NotFound == Response(404, FALSE, NoBody)

\* what the operation yields to its caller when its dispatch ends in a failure that
\* is no refusal of the credentials: no response (None, also after exhausted
\* retries) or a 404
NonAuthOutcomes(name) ==
    IF name = "get_file_info"
    THEN {FileInfoResult(None), FileInfoResult(NotFound)}
    ELSE {Bool(Is200(None)), Bool(Is200(NotFound))}

\* C14: an operation (here get_file_info, delete_file) whose dispatch is answered 401
\* or 403 yields to its caller an outcome that differs from the outcome it yields for
\* a failure that is no authentication failure (404, exhausted retries, no response).
C14_AuthDistinguishable ==
    (pc = "done" /\ op.name \in {"get_file_info", "delete_file"} /\ AuthRefused)
        => result \notin NonAuthOutcomes(op.name)


---------------------------------------------------------------------------
(* Two clients in one process, under SpecClients *)

\* C15: no cache state is shared across client instances: the first read
\* (get_user_repos, list_files, get_file_info) of a client B constructed after a
\* client A has read performs B's own network call and, when it succeeds, returns
\* what the remote holds for B.
C15_NoSharedCache ==
    (/\ pc = "done"
     /\ last.name = "GitHubClient"
     /\ op.name \in {"get_user_repos", "list_files", "get_file_info"})
        => /\ wired
           /\ (op.name = "get_user_repos" /\ ~op.failed) => result = RepoList(repos)
           /\ (op.name = "list_files" /\ ~op.failed) => result = Listing(files)


---------------------------------------------------------------------------
(* delete_file, under SpecDispatch *)

\* C16: delete_file issues exactly one DELETE dispatch carrying the caller's sha,
\* returns True iff that dispatch is answered 200, and on a rejection returns False
\* without fetching the current sha and without a second DELETE; it never reads from
\* the cache nor writes to it.
C16_DeleteOnce ==
    /\ [](op.name = "delete_file" =>
            /\ Len(journal) <= 1
            /\ ~glog.hit
            /\ pc = "done" =>
                  /\ Len(journal) = 1
                  /\ journal[1].method = "DELETE"
                  /\ journal[1].url = ContentsUrl(op.arg)
                  /\ journal[1].sha = op.sha
                  /\ result.kind = "bool"
                  /\ result.value = (journal[1].status = 200))
    /\ [][op.name = "delete_file" =>
            (cache' = cache /\ cached_requests' = cached_requests)]_vars

\* a delete_file with a stale sha was rejected and returned False
C16_Witness ==
    /\ pc = "done"
    /\ op.name = "delete_file"
    /\ files[op.arg] > 0
    /\ files[op.arg] # op.sha
    /\ journal[1].status = 409
    /\ result = Bool(FALSE)


---------------------------------------------------------------------------
(* The update path of upload_file, under SpecUpload *)

\* C17: once upload_file is in the update path (create answered 422), a metadata GET
\* that is not answered 200, or an update PUT that is not answered 200 (a second
\* conflict with a concurrent writer included), ends the call in failure with no
\* further fetch or write; create, fetch, update is never started again in one call.
C17_NoSecondRace ==
    op.name = "upload_file" =>
        /\ Len(journal) <= 3
        /\ \A i \in 2..Len(journal) : ~IsCreatePut(journal[i], op.arg)
        /\ (Len(journal) >= 2 /\ journal[2].status # 200) =>
              /\ Len(journal) = 2
              /\ pc \in {"ret", "done"}
              /\ pc = "done" => (IsNone(result) /\ op.failed)
        /\ (Len(journal) = 3 /\ journal[3].status # 200) =>
              /\ pc \in {"ret", "done"}
              /\ pc = "done" => (IsNone(result) /\ op.failed)

\* an upload lost the race: its update PUT carried the fetched sha and was answered
\* 409 because another writer had committed in between
C17_Witness ==
    /\ Uploaded
    /\ Len(journal) = 3
    /\ journal[2].status = 200
    /\ journal[3].sha = journal[2].got
    /\ journal[3].status = 409
    /\ files[op.arg] > journal[2].got
    /\ IsNone(result)


---------------------------------------------------------------------------
(* The metadata fetch of the update path, under SpecStale *)

\* the metadata GET of _update_existing_file has just returned
Fetched == op.name = "upload_file" /\ op.stage = "get" /\ pc = "ret"

\* C18: the metadata fetch of the update path is uncached: also when self.cache holds
\* an unexpired entry for the URL of the file, the GET goes to the network, the sha
\* sent in the update PUT is the sha of that fresh answer, and the fetch stores
\* nothing in the cache.
C18_FreshSha ==
    /\ [](Fetched =>
            /\ ~glog.hit
            /\ glog.wire >= 1
            /\ Is200(resp) => resp.body.sha = files[op.arg])
    /\ []((op.name = "upload_file" /\ op.stage = "update") =>
            /\ req.method = "PUT"
            /\ req.sha = journal[2].got
            /\ req.sha = op.sha)
    /\ [][op.name = "upload_file" => cache' = cache]_vars

\* the fetch returned a sha newer than the one of the unexpired cache entry
C18_Witness ==
    /\ Fetched
    /\ Is200(resp)
    /\ Md5Key(ContentsUrl(op.arg)) \in DOMAIN cache
    /\ Fresh(cache[Md5Key(ContentsUrl(op.arg))], now, cache_expiry)
    /\ cache[Md5Key(ContentsUrl(op.arg))].value.body.sha < resp.body.sha


---------------------------------------------------------------------------
(* create_repo and the cached repository lookups, under Spec *)

\* the keys of self.cache that hold a repository lookup: the entries of
\* get_repo_by_name and the cached answer to the listing of the repositories
IsRepoLookup(k) == k[1] = "repo_" \/ k = Md5Key(UserReposUrl)

\* create_repo has its answer and has not yet acted on it
Answered == op.name = "create_repo" /\ op.stage = "post" /\ pc = "ret"

\* C19: after create_repo is answered 201 no cached repository lookup remains: the
\* next get_repo_by_name for any name and the next get_user_repos go to the network,
\* while every cache entry that is no repository lookup is left unchanged; when
\* create_repo is not answered 201 the cache is left as it is.
C19_RepoInvalidation ==
    /\ []((pc = "done" /\ op.name = "create_repo" /\ journal[1].status = 201) =>
            /\ \A n \in RepoNames : ~RepoCached(n)
            /\ ~MemoHit(repos_memo, MemoKey(ReposArgs), repos_expiry)
            /\ \A k \in DOMAIN cache : ~(IsRepoLookup(k) /\ Fresh(cache[k], now, cache_expiry)))
    /\ [][Answered =>
            IF IsNone(resp) \/ resp.status # 201
            THEN cache' = cache
            ELSE \A k \in DOMAIN cache :
                    ~IsRepoLookup(k) => (k \in DOMAIN cache' /\ cache'[k] = cache[k])]_vars

---------------------------------------------------------------------------
(* The usage counters, under SpecThreads *)

\* C20: request_count and cached_requests never decrease, whatever the interleaving
\* of the threads that share the client and across clear_cache and close.
C20_CountersMonotone ==
    [][/\ request_count' >= request_count
       /\ cached_requests' >= cached_requests]_vars

---------------------------------------------------------------------------
(* The lookups in self.cache against concurrent stores and removals, under SpecRace *)

\* a thread takes the subscript of its lookup
Subscripts(t) == reader[t].at = "subscript" /\ reader'[t].at # "subscript"

\* C21: a lookup that runs while other threads store or remove its key ends in the
\* complete entry the dict holds at that instant (the old one or the new one) or
\* in a miss; it never ends in an exception.
C21_CacheRaceSafety ==
    [][\A t \in Threads :
         Subscripts(t) =>
            /\ reader'[t].at # "raised"
            /\ reader'[t].at = "hit" =>
                  /\ CacheKey(reader[t].kind, reader[t].name) \in DOMAIN cache
                  /\ reader'[t].entry = cache[CacheKey(reader[t].kind, reader[t].name)]]_vars

---------------------------------------------------------------------------
(* clear_cache and the reads that follow it, under SpecClear *)

ReadOperations ==
    {"get_file_info", "download_file", "list_files", "get_user_repos", "get_repo_by_name"}

\* C22: the read that follows clear_cache performs a network call: whatever it
\* returns, it made a physical attempt and was not answered from a value stored
\* before the clear.
C22_ClearCacheEmptiesAll ==
    (pc = "done" /\ op.name \in ReadOperations /\ last.name = "clear_cache") => wired

---------------------------------------------------------------------------
(* The cost of upload_file, under SpecUploads *)

\* the dispatches of the current call, the one under way included
Dispatches == Len(journal) + (IF pc \in {"request", "wire"} THEN 1 ELSE 0)

\* the PUT dispatches of the current call, the one under way included
Puts ==
    Cardinality({i \in 1..Len(journal) : journal[i].method = "PUT"})
    + (IF pc \in {"request", "wire"} /\ req.method = "PUT" THEN 1 ELSE 0)

\* C23: upload_file makes at most 3 dispatches, of which at most two are PUTs, each
\* dispatch is counted at most max_retries times by request_count (at most 9 per
\* call), the call ends with the metadata of the commit or with None, and a call
\* that has started always reaches its end.
C23_UploadTerminates ==
    /\ [](request_count <= 3 * max_retries * (MaxUploads - ops))
    /\ [](op.name = "upload_file" =>
            /\ Dispatches <= 3
            /\ Puts <= 2
            /\ glog.counted <= max_retries
            /\ pc = "done" =>
                  /\ IsNone(result) = op.failed
                  /\ ~IsNone(result) => (result.kind = "commit" /\ result.path = op.arg))
    /\ (op.name = "upload_file" ~> Uploaded)

\* the first upload of a behaviour used everything the bound allows: three
\* dispatches of three counted attempts each, two of them PUTs
C23_Witness ==
    /\ Uploaded
    /\ ops = MaxUploads - 1
    /\ Len(journal) = 3
    /\ Puts = 2
    /\ request_count = 3 * max_retries

=============================================================================
